---- MODULE Spec2Model ----
(***************************************************************************)
(* WHISPR (src/whispr.py): conversion of a concentration recipe into an    *)
(* ECHO transfer protocol.                                                 *)
(*                                                                         *)
(* Volumes are fixed-point numbers counted in dispense steps of 0.025 ul   *)
(* (the `base` of myround), so 2.5 ul is 100 steps, 9.5 ul is 380 steps    *)
(* and 45 ul is 1800 steps.  Concentrations are integers.  A data frame    *)
(* is a record of its column order, its row labels and its cells; a cell   *)
(* that was never assigned holds NaN.                                      *)
(*                                                                         *)
(* The source plates considered give every entry its own Label and give    *)
(* the entries of one reagent different concentrations, so the lookup of   *)
(* line 93 names one entry.  Reaction names and Labels are different       *)
(* strings.  writeProtocol is called either on the table returned by       *)
(* generateVolumeTable or directly on a table supplied by the caller.      *)
(*                                                                         *)
(* Spec runs generateVolumeTable and writeProtocol; FairSpec is the same   *)
(* program under weak fairness, for termination.  SpecCheckInputs applies  *)
(* checkInputs to a 'Volume' column and a plate type, SpecQuantizer        *)
(* applies myround to a volume and again to the result.                    *)
(***************************************************************************)
EXTENDS Integers, Sequences, FiniteSets, TLC

(* ---------------------------- bounds ----------------------------------- *)
MaxEntries == 2      \* inventory entries (concentration tiers) of reagent A
MaxWells   == 2      \* physical wells declared per inventory entry
MaxCells   == 4      \* cells of the destination plate grid

(* ------------------------ program constants ---------------------------- *)
StepsPerUl   == 40       \* 1 / base, base = .025
MaxRxnVol    == 100      \* 2.5 ul
VolRangeLDV  == 380      \* 9.5 ul
VolRange384  == 1800     \* 45 ul
NlPerUl      == 1000     \* transfer_vol*1000
NaN          == -1       \* a cell of a data frame that holds no number
Unbound      == -2       \* a local variable that was never assigned
PlateMinLDV  == 180      \* 4.5 ul
PlateMaxLDV  == 560      \* 14 ul
PlateMin384  == 800      \* 20 ul
PlateMax384  == 2600     \* 65 ul
CentiPerUl   == 100      \* np.round(.., 2): hundredths of a ul

(* --------------------------- input universe ---------------------------- *)
RxnIds     == {"R1", "R2"}
PlateTypes == {"384LDV_AQ_B2", "384PP_AQ_BP", "96_generic"}
ConcSet    == {10, 1000, 2000}
\* target concentrations of reagents A and B: the first reaction takes any
\* combination, a second reaction takes B = 5 with A = 0 or A = 3
TargetsA(r) == IF r = "R1" THEN {0, 1, 2, 3} ELSE {0, 3}
TargetsB(r) == IF r = "R1" THEN {0, 5} ELSE {5}
ALabels    == <<"A1", "A2", "A3", "A4">>

Range(s) == {s[i] : i \in DOMAIN s}

\* all sequences over S of length 0..n
RECURSIVE SeqsUpTo(_, _)
SeqsUpTo(S, n) ==
    IF n = 0 THEN {<<>>}
    ELSE LET shorter == SeqsUpTo(S, n - 1)
         IN  shorter \cup {Append(s, x) : s \in shorter, x \in S}

IsDistinct(s) == \A i, j \in DOMAIN s : i # j => s[i] # s[j]

Wells(label, n) == [i \in 1..n |-> <<label, i>>]

\* A source plate: the tiers of reagent A in declaration order, then reagent
\* B, then water.  Row index = reagent, Label = unique name of the entry.
SourcePlate(tiers, nw) ==
    [i \in 1..Len(tiers) |->
        [Reagent |-> "A", Label |-> ALabels[i], Well |-> Wells(ALabels[i], nw),
         Concentration |-> tiers[i]]]
    \o << [Reagent |-> "B", Label |-> "B", Well |-> Wells("B", nw),
           Concentration |-> 100],
          [Reagent |-> "Water", Label |-> "Water", Well |-> Wells("Water", nw),
           Concentration |-> 1] >>

SourcePlates ==
    {SourcePlate(t, nw) :
        t \in {s \in SeqsUpTo(ConcSet, MaxEntries) : Len(s) >= 1 /\ IsDistinct(s)},
        nw \in 1..MaxWells}

\* A mixing table: rows = reactions, columns = reagents, cells = target
\* concentrations.
TargetRows(r) ==
    {g \in [{"A", "B"} -> TargetsA(r) \cup TargetsB(r)] :
        g["A"] \in TargetsA(r) /\ g["B"] \in TargetsB(r)}

MixingTables ==
    UNION {{[index |-> ix, columns |-> cs, cell |-> f] :
               f \in {g \in [Range(ix) -> UNION {TargetRows(r) : r \in RxnIds}] :
                         \A r \in Range(ix) : g[r] \in TargetRows(r)}} :
              ix \in {<<"R1">>, <<"R1", "R2">>},
              cs \in {<<"A", "B">>, <<"B", "A">>}}

NoTable == [index |-> <<>>, columns |-> <<>>, cell |-> <<>>]

(* ------------------------------ myround -------------------------------- *)
\* Python round(): nearest integer to n/d, ties to the even neighbour.
Round(n, d) ==
    LET q == n \div d
        r == n % d
    IN  IF 2 * r < d THEN q
        ELSE IF 2 * r > d THEN q + 1
        ELSE IF q % 2 = 0 THEN q ELSE q + 1

\* variant of myround that divides by twice the base it multiplies by
myroundCoarse(n, d) == Round(n * (StepsPerUl \div 2), d)
\* myround(n/d), in steps: round(float(x)/base); base * steps has at most
\* three decimals, so the outer round(.., prec) keeps it.
myround(n, d) == Round(n * StepsPerUl, d)

(* --------------------------- data frames ------------------------------- *)
\* pd.DataFrame(columns = ['Label'] + cols); the 'Label' column is the
\* Label field of each row.
EmptyFrame(cols) == [columns |-> cols, rows |-> <<>>]

\* df.append({'Label': r}, ignore_index = True)
AppendRow(df, r) ==
    [df EXCEPT !.rows =
        Append(@, [Label |-> r, cell |-> [c \in Range(df.columns) |-> NaN]])]

\* df.loc[df['Label'] == r, col] = v : creates the column when it is new,
\* then assigns the cell of every row whose Label is r.
SetCell(df, r, col, v) ==
    LET cols == IF col \in Range(df.columns) THEN df.columns
                ELSE Append(df.columns, col)
    IN  [columns |-> cols,
         rows |-> [i \in DOMAIN df.rows |->
                     [Label |-> df.rows[i].Label,
                      cell |-> [c \in Range(cols) |->
                                 IF c = col /\ df.rows[i].Label = r THEN v
                                 ELSE IF c \in DOMAIN df.rows[i].cell
                                      THEN df.rows[i].cell[c]
                                      ELSE NaN]]]]

RowLabels(df) == {df.rows[i].Label : i \in DOMAIN df.rows}

\* df[df['Label'] == r] : the first row whose Label is r
RowOf(df, r) ==
    df.rows[CHOOSE i \in DOMAIN df.rows :
               /\ df.rows[i].Label = r
               /\ \A j \in DOMAIN df.rows : df.rows[j].Label = r => i <= j]

(* ------------------------ source plate lookups ------------------------- *)
\* sequence of the elements of s that satisfy Test, in order
RECURSIVE SelectEntries(_, _)
SelectEntries(s, reagent) ==
    IF s = <<>> THEN <<>>
    ELSE IF Head(s).Reagent = reagent
         THEN <<Head(s)>> \o SelectEntries(Tail(s), reagent)
         ELSE SelectEntries(Tail(s), reagent)

\* insert x into the descending sequence s
RECURSIVE InsertDesc(_, _)
InsertDesc(x, s) ==
    IF s = <<>> THEN <<x>>
    ELSE IF x > Head(s) THEN <<x>> \o s
         ELSE <<Head(s)>> \o InsertDesc(x, Tail(s))

RECURSIVE SortDesc(_)
SortDesc(s) == IF s = <<>> THEN <<>> ELSE InsertDesc(Head(s), SortDesc(Tail(s)))

\* variant of SortedConc that sorts in ascending order
SortedConcAsc(plate, column) ==
    LET es == SelectEntries(plate, column)
        d  == SortDesc([i \in DOMAIN es |-> es[i].Concentration])
    IN  [i \in DOMAIN d |-> d[Len(d) + 1 - i]]

\* source_plate_df.loc[column]['Concentration'].sort_values(ascending = False)
SortedConc(plate, column) ==
    LET es == SelectEntries(plate, column)
    IN  SortDesc([i \in DOMAIN es |-> es[i].Concentration])

\* variant of LabelOf that always names the most concentrated entry
LabelOfHighest(plate, column, conc) ==
    LET es == SelectEntries(plate, column)
    IN  es[CHOOSE i \in DOMAIN es :
              \A j \in DOMAIN es : es[j].Concentration <= es[i].Concentration].Label

\* source_plate_df[source_plate_df['Concentration'] == conc].loc[column]['Label']
LabelOf(plate, column, conc) ==
    LET es == SelectEntries(plate, column)
    IN  es[CHOOSE i \in DOMAIN es : es[i].Concentration = conc].Label

(* ------------------------------ state ---------------------------------- *)
VARIABLES
    source_plate_df,   \* the source inventory, shared by both functions
    \* generateVolumeTable
    gv_pc,             \* "idle", "row", "column", "while", "returned", "raised"
    mixing_table_df,   \* its argument
    vol_table_df,      \* the table under construction
    row_i, col_i,      \* positions of the two for loops
    vol,               \* accumulated volume of the current row
    conc_to_add, label_indx, conc_of_source, vol_to_add, label,
    tried,             \* history: concentrations evaluated for the current cell
    gv_raised,         \* name of the exception that left the function, or ""
    gv_result,         \* the returned data frame
    \* writeProtocol
    wp_pc,             \* "idle", "loop", "returned", "raised"
    plate_type, vol_table, plate,   \* its arguments
    vol_range, vol_used, rxn_loc, output_df,
    rxn_i, well_i, comp_i,          \* positions of the three for loops
    alloc_log,         \* history: one record per executed allocation
    wp_raised,         \* name of the exception that left the function, or ""
    wp_result,         \* the returned data frame
    load_report,       \* the printed loads, per component, in hundredths of a ul
    \* checkInputs
    ci_pc,             \* "idle", "returned", "raised"
    ci_plate_type, ci_volume,       \* its arguments: plate type, 'Volume' column
    ci_raised,         \* the exception that left the function, or ""
    \* myround applied once and twice
    q_pc,              \* "idle", "once", "twice"
    q_x, q_once, q_twice

gvVars == <<gv_pc, mixing_table_df, vol_table_df, row_i, col_i, vol, conc_to_add,
            label_indx, conc_of_source, vol_to_add, label, tried, gv_raised,
            gv_result>>
wpVars == <<wp_pc, plate_type, vol_table, plate, vol_range, vol_used, rxn_loc,
            output_df, rxn_i, well_i, comp_i, alloc_log, wp_raised, wp_result, load_report>>
ciVars == <<ci_pc, ci_plate_type, ci_volume, ci_raised>>
qVars  == <<q_pc, q_x, q_once, q_twice>>
vars == <<source_plate_df, gvVars, wpVars, ciVars, qVars>>

NoFrame == EmptyFrame(<<>>)
NoLoc   == [keys |-> <<>>, wells |-> <<>>]

Labels(sp) == [i \in DOMAIN sp |-> sp[i].Label]

\* nothing has been called yet
IdleRun ==
    /\ gv_pc = "idle" /\ mixing_table_df = NoTable /\ vol_table_df = NoFrame
    /\ row_i = 0 /\ col_i = 0 /\ vol = 0 /\ conc_to_add = 0 /\ label_indx = 0
    /\ conc_of_source = 0 /\ vol_to_add = 0 /\ label = "" /\ tried = <<>>
    /\ gv_raised = "" /\ gv_result = NoFrame
    /\ wp_pc = "idle" /\ plate_type = "" /\ vol_table = NoFrame /\ plate = <<>>
    /\ vol_range = Unbound /\ vol_used = <<>> /\ rxn_loc = NoLoc
    /\ output_df = <<>> /\ rxn_i = 0 /\ well_i = 0 /\ comp_i = 0
    /\ alloc_log = <<>> /\ wp_raised = "" /\ wp_result = <<>>
    /\ load_report = <<>>
IdleCheck ==
    ci_pc = "idle" /\ ci_plate_type = "" /\ ci_volume = <<>> /\ ci_raised = ""
IdleQuantizer ==
    q_pc = "idle" /\ q_x = 0 /\ q_once = 0 /\ q_twice = 0

Init ==
    /\ source_plate_df \in SourcePlates
    /\ IdleRun /\ IdleCheck /\ IdleQuantizer

(* ----------------------- generateVolumeTable --------------------------- *)
\* the reaction and the reagent the two loops stand at
row    == mixing_table_df.index[row_i]
column == mixing_table_df.columns[col_i]

\* line 87 / 91: vol_to_add = myround(10*conc_to_add/conc_of_source)
VolToAdd(conc, source) == myround(10 * conc, source)

\* variant of NeedsFallback that tests for a negative volume
NeedsFallbackNegative(conc, v) == conc > 0 /\ v < 0

\* line 88: while conc_to_add > 0 and vol_to_add == 0
NeedsFallback(conc, v) == conc > 0 /\ v = 0

\* line 98: if vol > 2.5
ExceedsMax(v) == v > MaxRxnVol

\* variant of Diluent that forgets to subtract the accumulated volume
DiluentFull(v) == MaxRxnVol

\* line 102: 2.5 - vol
Diluent(v) == MaxRxnVol - v

\* lines 75-76: the call and the empty table
GV_Call(mt) ==
    /\ gv_pc = "idle" /\ wp_pc = "idle"
    /\ mixing_table_df' = mt
    /\ vol_table_df' = EmptyFrame(Labels(source_plate_df))
    /\ row_i' = 1
    /\ gv_pc' = "row"
    /\ UNCHANGED <<source_plate_df, ciVars, qVars, col_i, vol, conc_to_add, label_indx,
                   conc_of_source, vol_to_add, label, tried, gv_raised,
                   gv_result, wpVars>>

\* lines 78-81: next row of the mixing table
GV_Row ==
    /\ gv_pc = "row" /\ row_i <= Len(mixing_table_df.index)
    /\ vol_table_df' = AppendRow(vol_table_df, row)
    /\ vol' = 0
    /\ col_i' = 1
    /\ gv_pc' = "column"
    /\ UNCHANGED <<source_plate_df, ciVars, qVars, mixing_table_df, row_i, conc_to_add,
                   label_indx, conc_of_source, vol_to_add, label, tried,
                   gv_raised, gv_result, wpVars>>

\* lines 83-87: next column, first (highest) concentration
GV_Column ==
    /\ gv_pc = "column" /\ col_i <= Len(mixing_table_df.columns)
    /\ LET c == mixing_table_df.cell[row][column]
           s == SortedConc(source_plate_df, column)[0 + 1]
       IN  /\ conc_to_add' = c
           /\ label_indx' = 0
           /\ conc_of_source' = s
           /\ vol_to_add' = VolToAdd(c, s)
           /\ tried' = <<s>>
    /\ gv_pc' = "while"
    /\ UNCHANGED <<source_plate_df, ciVars, qVars, mixing_table_df, vol_table_df, row_i, col_i,
                   vol, label, gv_raised, gv_result, wpVars>>

\* variant of GV_Fallback that tries the same entry again
GV_FallbackStuck ==
    /\ gv_pc = "while" /\ NeedsFallback(conc_to_add, vol_to_add)
    /\ label_indx + 1 < Len(SortedConc(source_plate_df, column))
    /\ LET s == SortedConc(source_plate_df, column)[label_indx + 1]
       IN  /\ label_indx' = label_indx
           /\ conc_of_source' = s
           /\ vol_to_add' = VolToAdd(conc_to_add, s)
           /\ tried' = tried
    /\ UNCHANGED <<source_plate_df, ciVars, qVars, gv_pc, mixing_table_df, vol_table_df, row_i,
                   col_i, vol, conc_to_add, label, gv_raised, gv_result, wpVars>>
\* lines 88-91: one iteration of the fallback loop
GV_Fallback ==
    /\ gv_pc = "while" /\ NeedsFallback(conc_to_add, vol_to_add)
    /\ label_indx + 1 < Len(SortedConc(source_plate_df, column))
    /\ LET s == SortedConc(source_plate_df, column)[(label_indx + 1) + 1]
       IN  /\ label_indx' = label_indx + 1
           /\ conc_of_source' = s
           /\ vol_to_add' = VolToAdd(conc_to_add, s)
           /\ tried' = Append(tried, s)
    /\ UNCHANGED <<source_plate_df, ciVars, qVars, gv_pc, mixing_table_df, vol_table_df, row_i,
                   col_i, vol, conc_to_add, label, gv_raised, gv_result, wpVars>>

\* lines 89-90: the index runs past the last entry of the reagent
GV_FallbackRaise ==
    /\ gv_pc = "while" /\ NeedsFallback(conc_to_add, vol_to_add)
    /\ label_indx + 1 >= Len(SortedConc(source_plate_df, column))
    /\ label_indx' = label_indx + 1
    /\ gv_pc' = "raised"
    /\ gv_raised' = "IndexError"
    /\ UNCHANGED <<source_plate_df, ciVars, qVars, mixing_table_df, vol_table_df, row_i, col_i,
                   vol, conc_to_add, conc_of_source, vol_to_add, label, tried,
                   gv_result, wpVars>>

\* lines 93-96: record the volume under the resolved label
GV_Record ==
    /\ gv_pc = "while" /\ ~NeedsFallback(conc_to_add, vol_to_add)
    /\ LET l == LabelOf(source_plate_df, column, conc_of_source)
       IN  /\ label' = l
           /\ vol_table_df' = SetCell(vol_table_df, row, l, vol_to_add)
    /\ vol' = vol + vol_to_add
    /\ col_i' = col_i + 1
    /\ gv_pc' = "column"
    /\ UNCHANGED <<source_plate_df, ciVars, qVars, mixing_table_df, row_i, conc_to_add,
                   label_indx, conc_of_source, vol_to_add, tried, gv_raised,
                   gv_result, wpVars>>

\* lines 98-103: end of a row.  The message of line 99 adds a float to a str,
\* which raises TypeError before the NameError is built.
GV_RowEnd ==
    /\ gv_pc = "column" /\ col_i > Len(mixing_table_df.columns)
    /\ IF ExceedsMax(vol)
       THEN /\ gv_pc' = "raised"
            /\ gv_raised' = "TypeError"
            /\ UNCHANGED <<vol_table_df, row_i>>
       ELSE /\ vol_table_df' =
                  SetCell(SetCell(vol_table_df, row, "Water", Diluent(vol)),
                          label, mixing_table_df.columns[col_i - 1], vol_to_add)
            /\ row_i' = row_i + 1
            /\ gv_pc' = "row"
            /\ UNCHANGED gv_raised
    /\ UNCHANGED <<source_plate_df, ciVars, qVars, mixing_table_df, col_i, vol, conc_to_add,
                   label_indx, conc_of_source, vol_to_add, label, tried,
                   gv_result, wpVars>>

\* line 107
GV_Return ==
    /\ gv_pc = "row" /\ row_i > Len(mixing_table_df.index)
    /\ gv_result' = vol_table_df
    /\ gv_pc' = "returned"
    /\ UNCHANGED <<source_plate_df, ciVars, qVars, mixing_table_df, vol_table_df, row_i, col_i,
                   vol, conc_to_add, label_indx, conc_of_source, vol_to_add,
                   label, tried, gv_raised, wpVars>>

GV_Next ==
    \/ \E mt \in MixingTables : GV_Call(mt)
    \/ GV_Row
    \/ GV_Column
    \/ GV_Fallback
    \/ GV_FallbackRaise
    \/ GV_Record
    \/ GV_RowEnd
    \/ GV_Return

(* --------------------------- writeProtocol ----------------------------- *)
\* 'LDV' in plate_type, '384PP' in plate_type
HasLDV(pt)   == pt \in {"384LDV_AQ_B2"}
Has384PP(pt) == pt \in {"384PP_AQ_BP"}

\* lines 133-136: no branch assigns vol_range for any other plate type
VolRangeOf(pt) ==
    IF HasLDV(pt) THEN VolRangeLDV
    ELSE IF Has384PP(pt) THEN VolRange384
    ELSE Unbound

\* line 146: pd.unique, in order of first appearance
RECURSIVE Unique(_)
Unique(s) ==
    IF s = <<>> THEN <<>>
    ELSE LET front == Unique(SubSeq(s, 1, Len(s) - 1))
             x     == s[Len(s)]
         IN  IF x \in Range(front) THEN front ELSE Append(front, x)

\* lines 150-153: the cells of the grid that hold l, in grid order
RECURSIVE Positions(_, _, _)
Positions(grid, l, from) ==
    IF from > Len(grid) THEN <<>>
    ELSE IF grid[from] = l THEN <<from>> \o Positions(grid, l, from + 1)
         ELSE Positions(grid, l, from + 1)

\* lines 145-153
RxnLoc(grid) ==
    [keys  |-> Unique(grid),
     wells |-> [l \in Range(grid) |-> Positions(grid, l, 1)]]

\* lines 195-196: the Well list of the first source entry labelled component
RECURSIVE SourceWells(_, _)
SourceWells(sp, component) ==
    IF sp = <<>> THEN <<>>
    ELSE IF Head(sp).Label = component THEN Head(sp).Well
         ELSE SourceWells(Tail(sp), component)

\* variant of IsPositive that lets a zero volume through
IsNotNegative(v) == v # NaN /\ v >= 0

\* line 193: if transfer_vol > 0 (false for NaN)
IsPositive(v) == v # NaN /\ v > 0

\* variant of Rotates that keeps the well when the range is exactly reached
RotatesLate(used, v, range) == used + v > range

\* line 200: if vol_used[component] + transfer_vol >= vol_range
Rotates(used, v, range) == used + v >= range

\* variant of ScaleToNl that drops the fraction of a ul before scaling
ScaleToNlWhole(v) == (v \div StepsPerUl) * NlPerUl

\* line 207: transfer_vol*1000
ScaleToNl(v) == (v * NlPerUl) \div StepsPerUl

\* volume tables handed to writeProtocol without generateVolumeTable: one
\* reaction that takes 4 or 20 ul of reagent B
DirectVols == {160, 800}
DirectTables(sp) ==
    {SetCell(AppendRow(EmptyFrame(Labels(sp)), "R1"), "R1", "B", d) : d \in DirectVols}

Plates == SeqsUpTo(RxnIds, MaxCells)

\* the reaction, destination well and component the three loops stand at
rxn       == rxn_loc.keys[rxn_i]
well      == rxn_loc.wells[rxn][well_i]
component == vol_table.columns[comp_i]
transfer_vol == RowOf(vol_table, rxn).cell[component]

\* lines 133-159
WP_Call(pt, grid, vt) ==
    /\ wp_pc = "idle"
    /\ \/ gv_pc = "returned" /\ vt = gv_result
       \/ gv_pc = "idle" /\ vt \in DirectTables(source_plate_df)
    /\ plate_type' = pt
    /\ plate' = grid
    /\ vol_table' = vt
    /\ vol_range' = VolRangeOf(pt)
    /\ vol_used' = [k \in Range(vt.columns) |-> 0]
    /\ rxn_loc' = RxnLoc(grid)
    /\ output_df' = <<>>
    /\ rxn_i' = 1 /\ well_i' = 1 /\ comp_i' = 1
    /\ wp_pc' = "loop"
    /\ UNCHANGED <<source_plate_df, ciVars, qVars, gvVars, alloc_log, wp_raised, wp_result, load_report>>

\* end of one pass of the innermost loop: next component, well or reaction
Advance ==
    IF comp_i < Len(vol_table.columns)
    THEN rxn_i' = rxn_i /\ well_i' = well_i /\ comp_i' = comp_i + 1
    ELSE IF well_i < Len(rxn_loc.wells[rxn])
         THEN rxn_i' = rxn_i /\ well_i' = well_i + 1 /\ comp_i' = 1
         ELSE rxn_i' = rxn_i + 1 /\ well_i' = 1 /\ comp_i' = 1

InLoop == wp_pc = "loop" /\ rxn_i <= Len(rxn_loc.keys)

\* line 188 as a variant that forgets the usage made so far
WP_SkipRxnReset ==
    /\ InLoop /\ rxn \notin RowLabels(vol_table)
    /\ rxn_i' = rxn_i + 1 /\ well_i' = 1 /\ comp_i' = 1
    /\ vol_used' = [k \in DOMAIN vol_used |-> 0]
    /\ UNCHANGED <<source_plate_df, ciVars, qVars, gvVars, wp_pc, plate_type, vol_table, plate,
                   vol_range, rxn_loc, output_df, alloc_log, wp_raised,
                   wp_result, load_report>>
\* line 188: the reaction is not in the volume table
WP_SkipRxn ==
    /\ InLoop /\ rxn \notin RowLabels(vol_table)
    /\ rxn_i' = rxn_i + 1 /\ well_i' = 1 /\ comp_i' = 1
    /\ UNCHANGED <<source_plate_df, ciVars, qVars, gvVars, wp_pc, plate_type, vol_table, plate,
                   vol_range, vol_used, rxn_loc, output_df, alloc_log, wp_raised,
                   wp_result, load_report>>

\* lines 192-193: nothing to transfer for this component
WP_NoTransfer ==
    /\ InLoop /\ rxn \in RowLabels(vol_table)
    /\ ~IsPositive(transfer_vol)
    /\ Advance
    /\ UNCHANGED <<source_plate_df, ciVars, qVars, gvVars, wp_pc, plate_type, vol_table, plate,
                   vol_range, vol_used, rxn_loc, output_df, alloc_log, wp_raised,
                   wp_result, load_report>>

\* variant of WP_TransferRaise that hands back the records built so far
WP_TransferRaisePartial ==
    /\ InLoop /\ rxn \in RowLabels(vol_table)
    /\ IsPositive(transfer_vol)
    /\ LET source_well == SourceWells(source_plate_df, component)
       IN  \/ /\ source_well = <<>>
              /\ wp_raised' = "IndexError"
              /\ UNCHANGED vol_used
           \/ /\ source_well # <<>> /\ vol_range = Unbound
              /\ wp_raised' = "UnboundLocalError"
              /\ UNCHANGED vol_used
           \/ /\ source_well # <<>> /\ vol_range # Unbound
              /\ Rotates(vol_used[component], transfer_vol, vol_range)
              /\ Tail(source_well) = <<>>
              /\ wp_raised' = "NameError"
              /\ vol_used' = [vol_used EXCEPT ![component] = 0]
    /\ wp_pc' = "raised"
    /\ wp_result' = output_df
    /\ UNCHANGED <<source_plate_df, ciVars, qVars, gvVars, plate_type, vol_table, plate,
                   vol_range, rxn_loc, output_df, rxn_i, well_i, comp_i,
                   alloc_log, load_report>>
\* lines 195-205 fail: no source entry (196), vol_range unassigned (200) or
\* no well left after dropping the first one (205)
WP_TransferRaise ==
    /\ InLoop /\ rxn \in RowLabels(vol_table)
    /\ IsPositive(transfer_vol)
    /\ LET source_well == SourceWells(source_plate_df, component)
       IN  \/ /\ source_well = <<>>
              /\ wp_raised' = "IndexError"
              /\ UNCHANGED vol_used
           \/ /\ source_well # <<>> /\ vol_range = Unbound
              /\ wp_raised' = "UnboundLocalError"
              /\ UNCHANGED vol_used
           \/ /\ source_well # <<>> /\ vol_range # Unbound
              /\ Rotates(vol_used[component], transfer_vol, vol_range)
              /\ Tail(source_well) = <<>>
              /\ wp_raised' = "NameError"
              /\ vol_used' = [vol_used EXCEPT ![component] = 0]
    /\ wp_pc' = "raised"
    /\ UNCHANGED <<source_plate_df, ciVars, qVars, gvVars, plate_type, vol_table, plate,
                   vol_range, rxn_loc, output_df, rxn_i, well_i, comp_i,
                   alloc_log, wp_result, load_report>>

\* lines 195-212: one transfer
WP_Transfer ==
    /\ InLoop /\ rxn \in RowLabels(vol_table)
    /\ IsPositive(transfer_vol)
    /\ vol_range # Unbound
    /\ LET full_list   == SourceWells(source_plate_df, component)
           rotate      == Rotates(vol_used[component], transfer_vol, vol_range)
           used        == IF rotate THEN 0 ELSE vol_used[component]
           source_well == IF rotate THEN Tail(full_list) ELSE full_list
       IN  /\ full_list # <<>>
           /\ source_well # <<>>
           /\ vol_used' = [vol_used EXCEPT ![component] = used + transfer_vol]
           /\ output_df' = Append(output_df,
                  [SourcePlateName      |-> "Source[1]",
                   SourcePlateType      |-> plate_type,
                   SourceWell           |-> source_well[0 + 1],
                   DestinationPlateName |-> "Destination[1]",
                   DestinationWell      |-> well,
                   TransferVolume       |-> ScaleToNl(transfer_vol)])
           /\ alloc_log' = Append(alloc_log,
                  [component |-> component, used |-> vol_used[component],
                   vol |-> transfer_vol, rotated |-> rotate,
                   after |-> used + transfer_vol,
                   well |-> source_well[0 + 1], dest |-> well])
    /\ Advance
    /\ UNCHANGED <<source_plate_df, ciVars, qVars, gvVars, wp_pc, plate_type, vol_table, plate,
                   vol_range, rxn_loc, wp_raised, wp_result, load_report>>

\* np.round(x, 2) of x = v steps, in hundredths of a ul.  v steps are
\* 2.5 v hundredths: an odd v lies halfway between two hundredths, and the
\* float product decides which of the two is printed.
RoundTo2(v) ==
    IF (v * CentiPerUl) % StepsPerUl = 0 THEN {(v * CentiPerUl) \div StepsPerUl}
    ELSE IF 2 * ((v * CentiPerUl) % StepsPerUl) = StepsPerUl
         THEN {(v * CentiPerUl) \div StepsPerUl, (v * CentiPerUl) \div StepsPerUl + 1}
         ELSE {Round(v * CentiPerUl, StepsPerUl)}

\* lines 225, 227: the literals of the printed line
PlateMinOf(pt) == IF HasLDV(pt) THEN PlateMinLDV ELSE PlateMin384
PlateMaxOf(pt) == IF HasLDV(pt) THEN PlateMaxLDV ELSE PlateMax384

\* lines 223-227: one line per component; nothing for another plate type
LoadReports(pt, used) ==
    IF HasLDV(pt) \/ Has384PP(pt)
    THEN {r \in [DOMAIN used ->
                   [least : UNION {RoundTo2(PlateMinOf(pt) + used[c]) : c \in DOMAIN used},
                    most  : {(PlateMaxOf(pt) * CentiPerUl) \div StepsPerUl}]] :
             \A c \in DOMAIN used : r[c].least \in RoundTo2(PlateMinOf(pt) + used[c])}
    ELSE {<<>>}

\* lines 215-231
WP_Return ==
    /\ wp_pc = "loop" /\ rxn_i > Len(rxn_loc.keys)
    /\ wp_result' = output_df
    /\ load_report' \in LoadReports(plate_type, vol_used)
    /\ wp_pc' = "returned"
    /\ UNCHANGED <<source_plate_df, ciVars, qVars, gvVars, plate_type, vol_table, plate,
                   vol_range, vol_used, rxn_loc, output_df, rxn_i, well_i,
                   comp_i, alloc_log, wp_raised>>

CallTables ==
    IF gv_pc = "returned" THEN {gv_result}
    ELSE IF gv_pc = "idle" THEN DirectTables(source_plate_df) ELSE {}

WP_Next ==
    \/ \E pt \in PlateTypes, grid \in Plates, vt \in CallTables : WP_Call(pt, grid, vt)
    \/ WP_SkipRxn
    \/ WP_NoTransfer
    \/ WP_TransferRaise
    \/ WP_Transfer
    \/ WP_Return

Next == GV_Next \/ WP_Next


Spec == Init /\ [][Next]_vars

(* ===================== properties of writeProtocol ===================== *)
RECURSIVE SumFrom(_, _)
\* total Transfer Volume of the records of df whose Source Well is w
SumFrom(df, w) ==
    IF df = <<>> THEN 0
    ELSE (IF Head(df).SourceWell = w THEN Head(df).TransferVolume ELSE 0)
         + SumFrom(Tail(df), w)

\* every volume of the table handed to writeProtocol is below vol_range
TableBelowRange ==
    \A i \in DOMAIN vol_table.rows : \A c \in DOMAIN vol_table.rows[i].cell :
        vol_table.rows[i].cell[c] < vol_range

\* position of well w in the declared well list of component c
WellIndex(c, w) ==
    LET ws == SourceWells(source_plate_df, c)
    IN  CHOOSE k \in DOMAIN ws : ws[k] = w

\* the allocation of the same component that precedes allocation i, or 0
PrevAlloc(i) ==
    LET same == {j \in 1..(i - 1) : alloc_log[j].component = alloc_log[i].component}
    IN  IF same = {} THEN 0 ELSE CHOOSE j \in same : \A k \in same : k <= j

\* C1 - per-well capacity: at every point of a run whose table volumes are
\* all below vol_range, the transfers emitted so far from any one source well
\* sum to strictly less than vol_range.
C1_PerWellCapacity ==
    (wp_pc # "idle" /\ vol_range # Unbound /\ TableBelowRange) =>
        \A i \in DOMAIN output_df :
            SumFrom(output_df, output_df[i].SourceWell) * StepsPerUl
                < vol_range * NlPerUl

\* C2 - well rotation correctness: a transfer v at usage u is sourced from the
\* well of the reagent's previous transfer (the first declared well when there
\* is none) iff u + v < vol_range; otherwise it is sourced from the next
\* declared well and the usage becomes v.
C2_RotationCorrect ==
    (wp_pc # "idle" /\ vol_range # Unbound /\ TableBelowRange) =>
        \A i \in DOMAIN alloc_log :
            LET e     == alloc_log[i]
                prev  == IF PrevAlloc(i) = 0
                         THEN SourceWells(source_plate_df, e.component)[1]
                         ELSE alloc_log[PrevAlloc(i)].well
                below == e.used + e.vol < vol_range
            IN  /\ (e.well = prev) <=> below
                /\ ~below => /\ WellIndex(e.component, e.well)
                                  = WellIndex(e.component, prev) + 1
                             /\ e.after = e.vol

\* C3 - rotation is one-way: the first transfer of a reagent comes from its
\* first declared well at usage 0, and the index of the well used by later
\* transfers of the reagent never decreases.
C3_RotationOneWay ==
    (wp_pc # "idle" /\ vol_range # Unbound /\ TableBelowRange) =>
        \A i \in DOMAIN alloc_log :
            LET e == alloc_log[i]
            IN  IF PrevAlloc(i) = 0
                THEN WellIndex(e.component, e.well) = 1 /\ e.used = 0
                ELSE WellIndex(e.component, alloc_log[PrevAlloc(i)].well)
                        <= WellIndex(e.component, e.well)

\* C4 - exhaustion: a reagent with k wells never has more than k rotations
\* (allocations with u + v >= vol_range) followed by an emitted transfer; the
\* run has failed by then.
C4_Exhaustion ==
    \A c \in DOMAIN vol_used :
        Cardinality({i \in DOMAIN alloc_log :
                        alloc_log[i].component = c /\ alloc_log[i].rotated})
            <= Len(SourceWells(source_plate_df, c))

(* ================== properties of generateVolumeTable ================== *)
RECURSIVE SumCells(_, _)
\* sum of the reagent volumes recorded in a row (all columns but 'Water')
SumCells(cells, cols) ==
    IF cols = <<>> THEN 0
    ELSE (IF Head(cols) # "Water" /\ cells[Head(cols)] # NaN
          THEN cells[Head(cols)] ELSE 0)
         + SumCells(cells, Tail(cols))

\* the inventory entries of a reagent
EntriesOf(reagent) == {e \in Range(source_plate_df) : e.Reagent = reagent}

\* a cell of the current row has just been recorded (lines 93-96 ran)
JustRecorded == gv_pc = "column" /\ col_i > 1
recorded_column == mixing_table_df.columns[col_i - 1]

\* a row has just been closed or refused (lines 98-103 ran)
RowEnded ==
    /\ gv_pc \in {"row", "returned", "raised"}
    /\ row_i >= 1 /\ col_i > Len(mixing_table_df.columns)

\* C5 - reaction closure: in every row of the returned table the reagent
\* volumes plus 'Water' make 2.5 ul, the reagent volumes make at most 2.5 ul
\* and 'Water' is not negative.
C5_ReactionClosure ==
    gv_pc = "returned" =>
        \A i \in DOMAIN gv_result.rows :
            LET cells == gv_result.rows[i].cell
                total == SumCells(cells, gv_result.columns)
            IN  /\ "Water" \in DOMAIN cells /\ cells["Water"] # NaN
                /\ total + cells["Water"] = MaxRxnVol
                /\ total <= MaxRxnVol
                /\ cells["Water"] >= 0

C5_Witness ==
    /\ gv_pc = "returned"
    /\ \E i, j \in DOMAIN gv_result.rows :
          /\ gv_result.rows[i].cell["Water"] = 0
          /\ SumCells(gv_result.rows[i].cell, gv_result.columns) = MaxRxnVol
          /\ gv_result.rows[j].cell["Water"] > 0

\* C6 - per-reaction ceiling: once a row is complete, the call has failed with
\* the reaction-volume error (the NameError of line 99) and returned nothing
\* exactly when the accumulated volume is above 2.5 ul; otherwise the row is
\* accepted with diluent 2.5 - total.
C6_VolumeCeiling ==
    /\ RowEnded =>
          IF vol > MaxRxnVol
          THEN gv_pc = "raised" /\ gv_raised = "NameError" /\ gv_result = NoFrame
          ELSE /\ gv_pc # "raised"
               /\ RowOf(vol_table_df, mixing_table_df.index[row_i - 1]).cell["Water"]
                     = MaxRxnVol - vol
    /\ gv_raised = "NameError" => RowEnded /\ vol > MaxRxnVol

\* C7 - concentration fallback: for a positive target the recorded entry is
\* the highest-concentration entry of the reagent whose quantized volume is
\* not 0, reached by walking the entries in descending concentration, and
\* the recorded volume is that entry's quantized volume.
C7_Fallback ==
    (JustRecorded /\ conc_to_add > 0) =>
        LET nonzero == {e \in EntriesOf(recorded_column) :
                           VolToAdd(conc_to_add, e.Concentration) # 0}
        IN  /\ nonzero # {}
            /\ LET sel == CHOOSE e \in nonzero :
                              \A f \in nonzero : f.Concentration <= e.Concentration
               IN  /\ conc_of_source = sel.Concentration
                   /\ label = sel.Label
                   /\ RowOf(vol_table_df, row).cell[sel.Label]
                         = VolToAdd(conc_to_add, sel.Concentration)
                   /\ Range(tried) = {e.Concentration : e \in
                         {f \in EntriesOf(recorded_column) :
                             f.Concentration >= sel.Concentration}}
                   /\ \A i \in 1..(Len(tried) - 1) : tried[i] > tried[i + 1]

C7_Witness ==
    /\ JustRecorded /\ conc_to_add > 0
    /\ label_indx = 1 /\ Len(tried) = 2 /\ vol_to_add > 0

EntryOf(l) == CHOOSE e \in Range(source_plate_df) : e.Label = l

\* C9 - resolved identity: a volume resolved by the fallback is recorded under
\* the Label of the entry whose concentration produced it and under no other
\* entry of the reagent, and every transfer of a component is sourced from a
\* well declared by the entry that carries that Label, with the volume the
\* table records for it.
C9_ResolvedIdentity ==
    /\ (JustRecorded /\ label_indx > 0) =>
          \A e \in EntriesOf(recorded_column) :
              RowOf(vol_table_df, row).cell[e.Label] =
                  IF e.Concentration = conc_of_source
                  THEN VolToAdd(conc_to_add, e.Concentration)
                  ELSE NaN
    /\ \A i \in DOMAIN output_df :
          LET c == alloc_log[i].component
          IN  /\ output_df[i].SourceWell \in Range(EntryOf(c).Well)
              /\ RowOf(vol_table, plate[output_df[i].DestinationWell]).cell[c]
                    = alloc_log[i].vol

C9_Witness ==
    /\ gv_pc = "returned" /\ wp_pc = "returned" /\ label_indx > 0
    /\ \E i \in DOMAIN output_df :
          /\ alloc_log[i].component = label
          /\ \E e \in EntriesOf(EntryOf(label).Reagent) :
                e.Concentration > EntryOf(label).Concentration

\* C10 - transfer emission: a completed writeProtocol returns exactly one
\* record for each destination position and volume-table column whose volume
\* for the position's reaction is > 0, addressed to that position with 1000
\* times the volume, and no other record.
C10_TransferEmission ==
    wp_pc = "returned" =>
        LET expected ==
                {pc \in (DOMAIN plate) \X Range(vol_table.columns) :
                    /\ plate[pc[1]] \in RowLabels(vol_table)
                    /\ RowOf(vol_table, plate[pc[1]]).cell[pc[2]] # NaN
                    /\ RowOf(vol_table, plate[pc[1]]).cell[pc[2]] > 0}
            recs(pc) ==
                {i \in DOMAIN wp_result :
                    /\ wp_result[i].DestinationWell = pc[1]
                    /\ wp_result[i].SourceWell \in Range(EntryOf(pc[2]).Well)}
        IN  /\ Len(wp_result) = Cardinality(expected)
            /\ \A pc \in expected :
                  /\ Cardinality(recs(pc)) = 1
                  /\ \A i \in recs(pc) :
                        wp_result[i].TransferVolume * StepsPerUl
                            = NlPerUl * RowOf(vol_table, plate[pc[1]]).cell[pc[2]]

C10_Witness ==
    /\ wp_pc = "returned" /\ Len(wp_result) >= 4
    /\ \E i \in DOMAIN plate : plate[i] \notin RowLabels(vol_table)
    /\ \E i \in DOMAIN vol_table.rows : \E c \in DOMAIN vol_table.rows[i].cell :
          vol_table.rows[i].cell[c] = 0

\* ---------------------------------------------------------------------------
\* C11 (skipped reactions): the step taken at a layout position whose
\* reaction has no row in the volume table adds no transfer record, raises
\* nothing, and leaves every usage counter and every well allocation made so
\* far as they were; the loop just moves to the next reaction.
C11_SkippedReactions ==
    [][(InLoop /\ rxn \notin RowLabels(vol_table))
         => /\ output_df' = output_df
            /\ vol_used' = vol_used
            /\ alloc_log' = alloc_log
            /\ wp_raised' = "" /\ wp_pc' = "loop"
            /\ rxn_i' = rxn_i + 1]_vars

\* a reaction was skipped after transfers had been made and usage counted
C11_Witness ==
    /\ wp_pc = "loop" /\ rxn_i > 1
    /\ rxn_loc.keys[rxn_i - 1] \notin RowLabels(vol_table)
    /\ output_df # <<>>
    /\ \E c \in DOMAIN vol_used : vol_used[c] > 0

\* the volume of component c moved by the transfers of the whole run
RECURSIVE TotalTransferred(_, _)
TotalTransferred(log, c) ==
    IF log = <<>> THEN 0
    ELSE (IF Head(log).component = c THEN Head(log).vol ELSE 0)
         + TotalTransferred(Tail(log), c)

\* ---------------------------------------------------------------------------
\* C12 (load report): at the end of a successful run on a recognised plate
\* type whose table volumes are all below vol_range, the minimum load printed
\* for each reagent is the plate minimum plus the total volume of that
\* reagent transferred over the whole run (printed to two decimals), and the
\* maximum printed is the plate maximum.
C12_LoadReport ==
    (wp_pc = "returned" /\ vol_range # Unbound /\ TableBelowRange) =>
        \A c \in DOMAIN vol_used :
            /\ load_report[c].least
                 \in RoundTo2(PlateMinOf(plate_type) + TotalTransferred(alloc_log, c))
            /\ load_report[c].most * StepsPerUl = PlateMaxOf(plate_type) * CentiPerUl

(* ----------------------------- checkInputs ----------------------------- *)
\* The 'Volume' column is a sequence of cells; a cell is the sequence of the
\* numbers it declares: one for a float cell, one per comma-separated piece
\* for a str cell.  At most MaxVolumes numbers are declared in all.
MaxVolumes == 3

\* the declared volumes tried: each limit of each plate type, and the
\* nearest value outside it
VolumeSet ==
    {PlateMinLDV - 1, PlateMinLDV, PlateMaxLDV, PlateMaxLDV + 1,
     PlateMin384 - 1, PlateMin384, PlateMax384, PlateMax384 + 1}

RECURSIVE VolumeColumns(_)
VolumeColumns(n) ==
    {<<>>} \cup UNION {{<<cell>> \o rest : cell \in [1..k -> VolumeSet],
                                           rest \in VolumeColumns(n - k)} : k \in 1..n}

\* lines 28-36: the limits, left unassigned for any other plate type
VolMinOf(pt) ==
    IF HasLDV(pt) THEN PlateMinLDV ELSE IF Has384PP(pt) THEN PlateMin384 ELSE Unbound
VolMaxOf(pt) ==
    IF HasLDV(pt) THEN PlateMaxLDV ELSE IF Has384PP(pt) THEN PlateMax384 ELSE Unbound

\* lines 38-46: split the str cells and collect every number
RECURSIVE SplitVolumes(_)
SplitVolumes(cells) ==
    IF cells = <<>> THEN <<>> ELSE Head(cells) \o SplitVolumes(Tail(cells))

\* variant of Above that also refuses the maximum itself
AboveOrAt(v, vol_max) == v >= vol_max

\* line 48: v > vol_max
Above(v, vol_max) == v > vol_max

\* line 50: v < vol_min
Below(v, vol_min) == v < vol_min

\* lines 28-51, the whole function.  The comparisons of lines 48 and 50 read
\* vol_max and vol_min only when the list has an element.
CI_Check ==
    /\ ci_pc = "called"
    /\ LET v       == SplitVolumes(ci_volume)
           vol_min == VolMinOf(ci_plate_type)
           vol_max == VolMaxOf(ci_plate_type)
       IN  IF v # <<>> /\ vol_max = Unbound
           THEN ci_raised' = "UnboundLocalError" /\ ci_pc' = "raised"
           ELSE IF \E i \in DOMAIN v : Above(v[i], vol_max)
           THEN ci_raised' = "NameError: above" /\ ci_pc' = "raised"
           ELSE IF \E i \in DOMAIN v : Below(v[i], vol_min)
           THEN ci_raised' = "NameError: below" /\ ci_pc' = "raised"
           ELSE ci_raised' = "" /\ ci_pc' = "returned"
    /\ UNCHANGED <<source_plate_df, gvVars, wpVars, qVars, ci_plate_type, ci_volume>>

\* checkInputs called on a 'Volume' column and a plate type
InitCheckInputs ==
    /\ source_plate_df = <<>>
    /\ IdleRun /\ IdleQuantizer
    /\ ci_pc = "called" /\ ci_raised = ""
    /\ ci_plate_type \in PlateTypes
    /\ ci_volume \in VolumeColumns(MaxVolumes)

NextCheckInputs == CI_Check
SpecCheckInputs == InitCheckInputs /\ [][NextCheckInputs]_vars

\* ---------------------------------------------------------------------------
\* C13 (range validation): for a recognised plate type checkInputs raises its
\* range error exactly when some declared volume, after the comma-separated
\* cells are split, is strictly above the plate maximum or strictly below the
\* plate minimum (the limits themselves are accepted), and the call changes
\* nothing but its own outcome.
C13_RangeValidation ==
    [][(ci_pc = "called" /\ (HasLDV(ci_plate_type) \/ Has384PP(ci_plate_type))) =>
         LET v     == SplitVolumes(ci_volume)
             least == PlateMinOf(ci_plate_type)
             most  == PlateMaxOf(ci_plate_type)
             out   == \E i \in DOMAIN v : v[i] > most \/ v[i] < least
         IN  /\ out  => ci_pc' = "raised"
                        /\ ci_raised' \in {"NameError: above", "NameError: below"}
             /\ ~out => ci_pc' = "returned" /\ ci_raised' = ""
             /\ UNCHANGED <<source_plate_df, gvVars, wpVars, ci_plate_type, ci_volume>>
      ]_vars

\* accepted: a str cell declaring exactly the minimum and the maximum
C13_Witness ==
    /\ ci_pc = "returned"
    /\ \E i \in DOMAIN ci_volume :
          /\ Len(ci_volume[i]) > 1
          /\ PlateMinOf(ci_plate_type) \in Range(ci_volume[i])
          /\ PlateMaxOf(ci_plate_type) \in Range(ci_volume[i])

\* ---------------------------------------------------------------------------
\* C14 (unrecognised plate type): called with a plate type that is neither
\* an LDV nor a 384PP type, checkInputs and writeProtocol each end in an
\* error whatever the other inputs are; neither returns normally.
C14_UnrecognizedPlateType ==
    /\ (ci_pc = "returned" => HasLDV(ci_plate_type) \/ Has384PP(ci_plate_type))
    /\ (wp_pc = "returned" => HasLDV(plate_type) \/ Has384PP(plate_type))

\* ---------------------------------------------------------------------------
\* C15 (fail-fast): once generateVolumeTable or writeProtocol has raised, the
\* run takes no further step, and at the raise nothing is handed back: no
\* volume table, no transfer list (not even the records built before the
\* error) and no load report; writeProtocol is never started on a table whose
\* construction raised.
C15_FailFast ==
    [][/\ ~(gv_pc = "raised" \/ wp_pc = "raised")
       /\ gv_pc' = "raised" => gv_raised' # "" /\ gv_result' = NoFrame /\ wp_pc' = "idle"
       /\ wp_pc' = "raised" => wp_raised' # "" /\ wp_result' = <<>> /\ load_report' = <<>>
      ]_vars

\* writeProtocol raised after it had built transfer records
C15_Witness ==
    /\ wp_pc = "raised" /\ wp_raised = "NameError"
    /\ output_df # <<>>
    /\ wp_result = <<>> /\ load_report = <<>>

(* ------------------------- myround, applied twice ---------------------- *)
\* inputs are multiples of 1/InputPerUl ul up to MaxInput of them, so that
\* values halfway between two steps are among them; results are kept to
\* prec = 3 decimals, in thousandths of a ul
MaxInput   == 1200
InputPerUl == 10000
PrecPerUl  == 1000

\* lines 5-6: round(base * round(float(x)/base), prec) of x = n/d ul
Quantized(n, d) == Round(myround(n, d) * PrecPerUl, StepsPerUl)

\* float(x)/base of an x halfway between two steps falls on either side of
\* the half, so either neighbouring step can come out
Halfway(n, d) == (2 * n * StepsPerUl) % d = 0 /\ (n * StepsPerUl) % d # 0
QuantizedFloat(n, d) ==
    IF Halfway(n, d)
    THEN {Round(k * PrecPerUl, StepsPerUl) :
             k \in {(n * StepsPerUl) \div d, (n * StepsPerUl) \div d + 1}}
    ELSE {Quantized(n, d)}

Q_Once ==
    /\ q_pc = "input"
    /\ q_once' \in QuantizedFloat(q_x, InputPerUl)
    /\ q_pc' = "once"
    /\ UNCHANGED <<source_plate_df, gvVars, wpVars, ciVars, q_x, q_twice>>

Q_Twice ==
    /\ q_pc = "once"
    /\ q_twice' \in QuantizedFloat(q_once, PrecPerUl)
    /\ q_pc' = "twice"
    /\ UNCHANGED <<source_plate_df, gvVars, wpVars, ciVars, q_x, q_once>>

InitQuantizer ==
    /\ source_plate_df = <<>>
    /\ IdleRun /\ IdleCheck
    /\ q_pc = "input" /\ q_x \in 0..MaxInput /\ q_once = 0 /\ q_twice = 0

NextQuantizer == Q_Once \/ Q_Twice
SpecQuantizer == InitQuantizer /\ [][NextQuantizer]_vars

\* ---------------------------------------------------------------------------
\* C16 (quantizer idempotence): quantizing an already quantized volume gives
\* the same volume, myround(myround(x)) = myround(x), and that volume is a
\* whole number of 0.025 ul steps.
C16_QuantizerIdempotence ==
    q_pc = "twice" =>
        /\ q_twice = q_once
        /\ (q_once * StepsPerUl) % PrecPerUl = 0

\* x was halfway between two steps and was moved to a positive volume
C16_Witness ==
    /\ q_pc = "twice" /\ q_once > 0
    /\ q_once * InputPerUl # q_x * PrecPerUl
    /\ Halfway(q_x, InputPerUl)

\* Both functions are straight-line loops over finite data with nothing to
\* wait for: a call that has started keeps taking its next step.
\* Checked on the inventories whose reagent A has the two entries 1000 and
\* 2000, with every number of wells.
InitTermination ==
    /\ Init
    /\ source_plate_df \in {SourcePlate(<<1000, 2000>>, nw) : nw \in 1..MaxWells}
FairSpec == InitTermination /\ [][Next]_vars /\ WF_vars(Next)

\* ---------------------------------------------------------------------------
\* C17 (termination): a started generateVolumeTable and a started
\* writeProtocol each eventually return or raise; every iteration of the
\* fallback loop moves to the next entry, of strictly lower concentration,
\* and the loop makes at most as many iterations as the reagent has entries.
C17_Termination ==
    /\ (gv_pc \in {"row", "column", "while"}) ~> (gv_pc \in {"returned", "raised"})
    /\ (wp_pc = "loop") ~> (wp_pc \in {"returned", "raised"})
    /\ [][(gv_pc = "while" /\ gv_pc' # "column") =>
             /\ label_indx' = label_indx + 1
             /\ label_indx' <= Len(SortedConc(source_plate_df, column))
             /\ gv_pc' = "while" => conc_of_source' < conc_of_source]_vars

\* both calls finished, the table after a fallback to a lower entry
C17_Witness ==
    /\ gv_pc = "returned" /\ Len(tried) > 1
    /\ wp_pc = "returned" /\ output_df # <<>>

\* ---------------------------------------------------------------------------
\* C18 (usage bound): in a run on a recognised plate type whose table volumes
\* are all below vol_range, every usage counter is at least 0 and strictly
\* below vol_range after every transfer, so every minimum load printed at the
\* end is strictly below the plate maximum printed with it.
C18_UsageBound ==
    (wp_pc # "idle" /\ vol_range # Unbound /\ TableBelowRange) =>
        /\ \A c \in DOMAIN vol_used : 0 <= vol_used[c] /\ vol_used[c] < vol_range
        /\ \A i \in DOMAIN alloc_log : 0 < alloc_log[i].after /\ alloc_log[i].after < vol_range
        /\ wp_pc = "returned" =>
              \A c \in DOMAIN load_report : load_report[c].least < load_report[c].most

\* a finished run in which a transfer would have brought a counter to
\* exactly vol_range
C18_Witness ==
    /\ wp_pc = "returned" /\ vol_range # Unbound /\ TableBelowRange
    /\ \E i \in DOMAIN alloc_log :
          alloc_log[i].used > 0 /\ alloc_log[i].used + alloc_log[i].vol = vol_range

\* the Transfer Volumes of the records addressed to destination well w
RECURSIVE SumTo(_, _)
SumTo(df, w) ==
    IF df = <<>> THEN 0
    ELSE (IF Head(df).DestinationWell = w THEN Head(df).TransferVolume ELSE 0)
         + SumTo(Tail(df), w)

\* the layout positions whose reaction has a row in the volume table
FilledPositions ==
    UNION {Range(rxn_loc.wells[r]) : r \in Range(rxn_loc.keys) \cap RowLabels(vol_table)}

\* ---------------------------------------------------------------------------
\* C19 (destination fill): when writeProtocol has returned on a volume table
\* that generateVolumeTable returned, the Transfer Volumes of the records
\* addressed to each layout position whose reaction is in the table, the
\* 'Water' record included, sum to 2500 nl, the full 2.5 ul reaction volume.
C19_DestinationFill ==
    (wp_pc = "returned" /\ gv_pc = "returned" /\ vol_table = gv_result) =>
        \A w \in FilledPositions :
            SumTo(wp_result, w) * StepsPerUl = MaxRxnVol * NlPerUl

\* a finished run with two filled positions, one of them receiving a
\* reagent from each column and water
C19_Witness ==
    /\ wp_pc = "returned" /\ gv_pc = "returned" /\ vol_table = gv_result
    /\ Cardinality(FilledPositions) > 1
    /\ \E w \in FilledPositions :
          Cardinality({i \in DOMAIN wp_result : wp_result[i].DestinationWell = w}) > 2

====
